---- MODULE Spec2Model ----
(***************************************************************************)
(* Model of conda/win_batlink.py: generation of the Windows batch scripts  *)
(* that link / unlink a package's files on behalf of conda.                *)
(*                                                                         *)
(* Representation of text.                                                 *)
(*   token   a string: one path component, a separator, or a drive         *)
(*   word    a sequence of tokens: a literal word of a command (one        *)
(*           token), a path (its components and separators), or a          *)
(*           replacement field  <<"{", name, "}">>                         *)
(*   line    a sequence of words (the words are separated by blanks)       *)
(*   text    a sequence of lines (each ended by a newline)                 *)
(***************************************************************************)
EXTENDS Integers, Sequences, FiniteSets, TLC

\* Longest files list handed to a generator.
MaxFiles == 2
\* Longest directories list handed to make_bat_unlink.
MaxDirs == 2

VARIABLES
    has_mklink,   \* what find_executable('mklink') answers during the call
    hashseed,     \* string-hash seed of the interpreter running the call
    cwd,          \* os.getcwd() during the call
    call,         \* the last call: which generator, and its arguments
    pc,           \* "idle", "running" (called, not yet returned) or "done"
    batchfile,    \* the text the last call returned
    prev          \* the call made just before with the same lists, if any

vars == <<has_mklink, hashseed, cwd, call, pc, batchfile, prev>>

----------------------------------------------------------------------------
(* os.path (ntpath) as imported on line 32 *)

SEP == "\\"
ALTSEP == "/"
DRIVE == "C:"

IsSep(t) == t \in {SEP, ALTSEP}

Last(s) == s[Len(s)]

\* ntpath.splitdrive: <<drive, rest>>
splitdrive(p) ==
    IF Len(p) >= 1 /\ p[1] = DRIVE THEN << <<DRIVE>>, Tail(p) >> ELSE << <<>>, p >>

\* ntpath.join for two arguments
join(path, p) ==
    LET rd == splitdrive(path)[1]
        rp == splitdrive(path)[2]
        pd == splitdrive(p)[1]
        pp == splitdrive(p)[2]
    IN  IF pp # <<>> /\ IsSep(pp[1])
        THEN (IF pd # <<>> \/ rd = <<>> THEN pd ELSE rd) \o pp
        ELSE IF pd # <<>> /\ pd # rd
        THEN p
        ELSE rd \o (IF rp # <<>> /\ ~IsSep(Last(rp)) THEN rp \o <<SEP>> ELSE rp) \o pp

\* index of the last separator of r, 0 when it has none
RECURSIVE LastSepIndex(_, _)
LastSepIndex(r, i) ==
    IF i = 0 THEN 0
    ELSE IF IsSep(r[i]) THEN i
    ELSE LastSepIndex(r, i - 1)

\* head.rstrip(seps)
RECURSIVE rstrip_seps(_)
rstrip_seps(h) ==
    IF h # <<>> /\ IsSep(Last(h)) THEN rstrip_seps(SubSeq(h, 1, Len(h) - 1)) ELSE h

\* ntpath.split: <<head, tail>>, tail has no separator
split(p) ==
    LET d == splitdrive(p)[1]
        r == splitdrive(p)[2]
        i == LastSepIndex(r, Len(r))
        head == SubSeq(r, 1, i)
        tail == SubSeq(r, i + 1, Len(r))
        stripped == rstrip_seps(head)
    IN  << d \o (IF stripped = <<>> THEN head ELSE stripped), tail >>

\* the components of r, left to right, "." dropped and ".." resolved
RECURSIVE resolve(_, _, _)
resolve(r, rooted, acc) ==
    IF r = <<>> THEN acc
    ELSE LET t == Head(r)
         IN  IF IsSep(t) \/ t = "."
             THEN resolve(Tail(r), rooted, acc)
             ELSE IF t = ".."
             THEN IF acc # <<>> /\ Last(acc) # ".."
                  THEN resolve(Tail(r), rooted, SubSeq(acc, 1, Len(acc) - 1))
                  ELSE IF rooted
                  THEN resolve(Tail(r), rooted, acc)
                  ELSE resolve(Tail(r), rooted, Append(acc, t))
             ELSE resolve(Tail(r), rooted, Append(acc, t))

\* sep.join(comps)
RECURSIVE sep_join(_)
sep_join(comps) ==
    IF comps = <<>> THEN <<>>
    ELSE IF Len(comps) = 1 THEN comps
    ELSE <<Head(comps), SEP>> \o sep_join(Tail(comps))

\* ntpath.normpath
normpath(p) ==
    LET d == splitdrive(p)[1]
        r == splitdrive(p)[2]
        rooted == r # <<>> /\ IsSep(r[1])
        comps == resolve(r, rooted, <<>>)
        out == d \o (IF rooted THEN <<SEP>> ELSE <<>>) \o sep_join(comps)
    IN  IF out = <<>> THEN <<".">> ELSE out

\* ntpath.abspath: relative paths are resolved against os.getcwd()
abspath(p) == normpath(join(cwd, p))

----------------------------------------------------------------------------
(* str.format and str.join *)

Field(name) == <<"{", name, "}">>

IsField(w) == Len(w) = 3 /\ w[1] = "{" /\ w[3] = "}"

\* template.format(**kw) for a one-line template: every field is replaced
\* by the argument of its name
format(template, kw) ==
    [i \in 1..Len(template) |->
        IF IsField(template[i]) THEN kw[template[i][2]] ELSE template[i]]

\* '\n'.join(lines), as the lines it occupies in a text
newline_join(lines) == IF lines = <<>> THEN << <<>> >> ELSE lines

\* template.format(**kw) for a text whose fields stand on lines of their own
RECURSIVE format_text(_, _)
format_text(template, kw) ==
    IF template = <<>> THEN <<>>
    ELSE LET l == Head(template)
         IN  (IF Len(l) = 1 /\ IsField(l[1]) THEN kw[l[1][2]] ELSE <<l>>)
             \o format_text(Tail(template), kw)

----------------------------------------------------------------------------
(* the templates, lines 37-68 *)

ECHO_OFF == << <<"@echo">>, <<"off">> >>
NUL_OPEN == << <<">">>, <<"NUL">>, <<"(">> >>
NUL_CLOSE == << <<")">> >>
BLANK == <<>>

\* BAT_LINK_HEADER with the two blocks exchanged
BAT_LINK_HEADER_links_first ==
    << ECHO_OFF,
       NUL_OPEN,
       << Field("links") >>,
       NUL_CLOSE,
       BLANK,
       NUL_OPEN,
       << Field("mkdirs") >>,
       NUL_CLOSE >>

BAT_LINK_HEADER ==
    << ECHO_OFF,
       NUL_OPEN,
       << Field("mkdirs") >>,
       NUL_CLOSE,
       BLANK,
       NUL_OPEN,
       << Field("links") >>,
       NUL_CLOSE >>

\* BAT_UNLINK_HEADER with the two fields exchanged
BAT_UNLINK_HEADER_dirs_first ==
    << ECHO_OFF,
       BLANK,
       NUL_OPEN,
       << Field("dirdeletes") >>,
       BLANK,
       << Field("filedeletes") >>,
       NUL_CLOSE >>

BAT_UNLINK_HEADER ==
    << ECHO_OFF,
       BLANK,
       NUL_OPEN,
       << Field("filedeletes") >>,
       BLANK,
       << Field("dirdeletes") >>,
       NUL_CLOSE >>

\* WINXP_LINK with the arguments in the order source, dest
WINXP_LINK_source_first ==
    << <<"fsutil.exe">>, <<"hardlink">>, <<"create">>, Field("source"), Field("dest") >>

WINXP_LINK ==
    << <<"fsutil.exe">>, <<"hardlink">>, <<"create">>, Field("dest"), Field("source") >>

WINVISTA_LINK == << <<"mklink">>, <<"/H">>, Field("dest"), Field("source") >>

MAKE_DIR == << <<"mkdir">>, Field("dst_dir") >>

FILE_DELETE == << <<"del">>, <<"/Q">>, Field("dest") >>

DIR_DELETE == << <<"rmdir">>, <<"/Q">>, Field("dest") >>

----------------------------------------------------------------------------
(* iteration over a set of strings, line 85 *)

\* every token of the paths handled here
Alphabet ==
    << "C:", "\\", "/", ".", "..", "env", "Anaconda", "pkgs", "foo", "bar",
       "work", "a", "d", "lib", "sub", "b.dll", "c.py", "x.txt", "y.txt" >>

TokenCode(t) == CHOOSE i \in 1..Len(Alphabet) : Alphabet[i] = t

\* hash(p) of a string under the interpreter's string-hash seed
RECURSIVE str_hash(_, _)
str_hash(p, h) ==
    IF p = <<>> THEN h
    ELSE str_hash(Tail(p), (h * 7 + TokenCode(Head(p))) % 23)

\* p before q, token by token
RECURSIVE lex_less(_, _)
lex_less(p, q) ==
    IF p = <<>> THEN q # <<>>
    ELSE IF q = <<>> THEN FALSE
    ELSE IF TokenCode(Head(p)) < TokenCode(Head(q)) THEN TRUE
    ELSE IF TokenCode(Head(p)) > TokenCode(Head(q)) THEN FALSE
    ELSE lex_less(Tail(p), Tail(q))

\* the slot of p in the hash table lies before the slot of q
hash_less(p, q) ==
    \/ str_hash(p, hashseed) < str_hash(q, hashseed)
    \/ str_hash(p, hashseed) = str_hash(q, hashseed) /\ lex_less(p, q)

\* `for dn in dirs`: the elements of a set, each once, in hash-table order
RECURSIVE set_iter(_)
set_iter(S) ==
    IF S = {} THEN <<>>
    ELSE LET m == CHOOSE x \in S : \A y \in S \ {x} : hash_less(x, y)
         IN  <<m>> \o set_iter(S \ {m})

----------------------------------------------------------------------------
(* make_bat_link, lines 70-90 *)

\* LINK with the test of the probe inverted
LINK_inverted == IF has_mklink THEN WINXP_LINK ELSE WINVISTA_LINK

\* LINK, lines 72-73
LINK == IF has_mklink THEN WINVISTA_LINK ELSE WINXP_LINK

\* source taken from the base name alone
link_source_flat(file, dist_dir) == abspath(join(dist_dir, split(file)[2]))

\* source, line 76
link_source(file, dist_dir) == abspath(join(dist_dir, file))

\* dst_dir, lines 77-78
link_dst_dir(file, prefix) == join(prefix, split(file)[1])

\* dest, line 80
link_dest(file, prefix) == abspath(join(link_dst_dir(file, prefix), split(file)[2]))

\* links with an entry that repeats an earlier one skipped
links_of_unique(files, prefix, dist_dir) ==
    LET first(i) == \A j \in 1..(i - 1) : files[j] # files[i]
        idx == SelectSeq([i \in 1..Len(files) |-> i], first)
    IN  [k \in 1..Len(idx) |->
            format(LINK, [source |-> link_source(files[idx[k]], dist_dir),
                          dest |-> link_dest(files[idx[k]], prefix)])]

\* links collected in a set and read back in its iteration order
links_of_set(files, prefix, dist_dir) ==
    LET it == set_iter({ files[i] : i \in 1..Len(files) })
    IN  [k \in 1..Len(it) |->
            format(LINK, [source |-> link_source(it[k], dist_dir),
                          dest |-> link_dest(it[k], prefix)])]

\* links after the loop, lines 71, 75-81
links_of(files, prefix, dist_dir) ==
    [i \in 1..Len(files) |->
        format(LINK, [source |-> link_source(files[i], dist_dir),
                      dest |-> link_dest(files[i], prefix)])]

\* dirs holding dst_dir as joined, without abspath
dirs_of_raw(files, prefix) ==
    { link_dst_dir(files[i], prefix) : i \in 1..Len(files) }

\* dirs starting out with the prefix in it
dirs_of_with_prefix(files, prefix) ==
    { abspath(prefix) } \cup { abspath(link_dst_dir(files[i], prefix)) : i \in 1..Len(files) }

\* dirs after the loop, lines 74, 79
dirs_of(files, prefix) ==
    { abspath(link_dst_dir(files[i], prefix)) : i \in 1..Len(files) }

\* mkdirs, line 85
mkdirs_of(files, prefix) ==
    LET it == set_iter(dirs_of(files, prefix))
    IN  [i \in 1..Len(it) |-> format(MAKE_DIR, [dst_dir |-> it[i]])]

make_bat_link(files, prefix, dist_dir) ==
    format_text(BAT_LINK_HEADER,
                [links |-> newline_join(links_of(files, prefix, dist_dir)),
                 mkdirs |-> newline_join(mkdirs_of(files, prefix))])

----------------------------------------------------------------------------
(* make_bat_unlink, lines 92-98 *)

\* filedeletes with relative entries resolved against the prefix of the call
filedeletes_of_prefix(files) ==
    [i \in 1..Len(files) |->
        format(FILE_DELETE, [dest |-> abspath(join(call.prefix, files[i]))])]

\* filedeletes, line 93
filedeletes_of(files) ==
    [i \in 1..Len(files) |-> format(FILE_DELETE, [dest |-> abspath(files[i])])]

\* dirdeletes, line 94
dirdeletes_of(directories) ==
    [i \in 1..Len(directories) |->
        format(DIR_DELETE, [dest |-> abspath(directories[i])])]

make_bat_unlink(files, directories, prefix, dist_dir) ==
    format_text(BAT_UNLINK_HEADER,
                [filedeletes |-> newline_join(filedeletes_of(files)),
                 dirdeletes |-> newline_join(dirdeletes_of(directories))])

----------------------------------------------------------------------------
(* the arguments and the environment of a call *)

SeqUpTo(S, n) == UNION { [1..k -> S] : k \in 0..n }

\* install prefixes (absolute)
Prefixes == { <<"C:", "\\", "env">>, <<"C:", "\\", "Anaconda">> }

\* package directories in the package cache (absolute)
DistDirs == { <<"C:", "\\", "pkgs", "\\", "foo">>, <<"C:", "\\", "pkgs", "\\", "bar">> }

\* the prefix and dist_dir of a package that is unlinked
Installed ==
    { [prefix |-> <<"C:", "\\", "env">>, dist_dir |-> <<"C:", "\\", "pkgs", "\\", "foo">>],
      [prefix |-> <<"C:", "\\", "Anaconda">>, dist_dir |-> <<"C:", "\\", "pkgs", "\\", "bar">>] }

\* entries of a package's file list: relative paths of files, written with
\* forward slashes
LinkFiles ==
    { <<"b.dll">>,
      <<"a", "/", "b.dll">>,
      <<"lib", "/", ".", "/", "c.py">>,
      <<"a", "/", "d", "/", "..", "/", "b.dll">> }

\* files to delete: relative or absolute
UnlinkFiles == { <<"x.txt">>, <<"C:", "\\", "env", "\\", "y.txt">> }

\* directories to delete: relative or absolute
UnlinkDirs == { <<"sub">>, <<"C:", "\\", "env", "\\", "a">> }

\* working directories of the calling process
Cwds == { <<"C:", "\\", "work">>, <<"C:", "\\", "env">> }

\* string-hash seeds of an interpreter (PYTHONHASHSEED)
Seeds == {0, 1}

NoCall == [op |-> "none", files |-> <<>>, directories |-> <<>>,
           prefix |-> <<>>, dist_dir |-> <<>>]

NoPrev == [valid |-> FALSE, batchfile |-> <<>>, has_mklink |-> FALSE,
           hashseed |-> 0, cwd |-> <<>>, prefix |-> <<>>, dist_dir |-> <<>>]

\* the call that has returned, kept as the one before
Snapshot == [valid |-> TRUE, batchfile |-> batchfile, has_mklink |-> has_mklink,
             hashseed |-> hashseed, cwd |-> cwd,
             prefix |-> call.prefix, dist_dir |-> call.dist_dir]

\* what a call finds around it: the probe's answer, the interpreter's hash
\* seed and the working directory
Environment ==
    /\ has_mklink' \in BOOLEAN
    /\ hashseed' \in Seeds
    /\ cwd' \in Cwds

Init ==
    /\ has_mklink \in BOOLEAN
    /\ hashseed \in Seeds
    /\ cwd \in Cwds
    /\ call = NoCall
    /\ pc = "idle"
    /\ batchfile = <<>>
    /\ prev = NoPrev

\* the caller invokes make_bat_link
CallLink ==
    \E files \in SeqUpTo(LinkFiles, MaxFiles), prefix \in Prefixes, dist_dir \in DistDirs :
        /\ pc = "idle"
        /\ Environment
        /\ call' = [op |-> "link", files |-> files, directories |-> <<>>,
                    prefix |-> prefix, dist_dir |-> dist_dir]
        /\ pc' = "running"
        /\ UNCHANGED <<batchfile, prev>>

\* the caller invokes make_bat_unlink
CallUnlink ==
    \E files \in SeqUpTo(UnlinkFiles, MaxFiles), directories \in SeqUpTo(UnlinkDirs, MaxDirs),
       pkg \in Installed :
        /\ pc = "idle"
        /\ Environment
        /\ call' = [op |-> "unlink", files |-> files, directories |-> directories,
                    prefix |-> pkg.prefix, dist_dir |-> pkg.dist_dir]
        /\ pc' = "running"
        /\ UNCHANGED <<batchfile, prev>>

\* make_bat_link runs and returns
MakeBatLink ==
    /\ pc = "running"
    /\ call.op = "link"
    /\ batchfile' = make_bat_link(call.files, call.prefix, call.dist_dir)
    /\ pc' = "done"
    /\ UNCHANGED <<has_mklink, hashseed, cwd, call, prev>>

\* make_bat_unlink runs and returns
MakeBatUnlink ==
    /\ pc = "running"
    /\ call.op = "unlink"
    /\ batchfile' = make_bat_unlink(call.files, call.directories, call.prefix, call.dist_dir)
    /\ pc' = "done"
    /\ UNCHANGED <<has_mklink, hashseed, cwd, call, prev>>

\* the caller invokes make_bat_link once more with the same arguments
CallLinkAgain ==
    /\ pc = "done"
    /\ call.op = "link"
    /\ ~prev.valid
    /\ Environment
    /\ prev' = Snapshot
    /\ pc' = "running"
    /\ UNCHANGED <<call, batchfile>>

\* the caller invokes make_bat_unlink once more with the same lists
CallUnlinkAgain ==
    \E pkg \in Installed :
        /\ pc = "done"
        /\ call.op = "unlink"
        /\ ~prev.valid
        /\ Environment
        /\ prev' = Snapshot
        /\ call' = [call EXCEPT !.prefix = pkg.prefix, !.dist_dir = pkg.dist_dir]
        /\ pc' = "running"
        /\ UNCHANGED batchfile

\* the caller drops the text; the next call is a new one
Forget ==
    /\ pc = "done"
    /\ call' = NoCall
    /\ pc' = "idle"
    /\ batchfile' = <<>>
    /\ prev' = NoPrev
    /\ UNCHANGED <<has_mklink, hashseed, cwd>>

Next ==
    \/ CallLink
    \/ CallUnlink
    \/ MakeBatLink
    \/ MakeBatUnlink
    \/ CallLinkAgain
    \/ CallUnlinkAgain
    \/ Forget

Spec == Init /\ [][Next]_vars

----------------------------------------------------------------------------
(* Reading a returned text *)

StartsWith(line, ws) == Len(line) >= Len(ws) /\ SubSeq(line, 1, Len(ws)) = ws

IsModernLink(line) == StartsWith(line, << <<"mklink">>, <<"/H">> >>)
IsLegacyLink(line) == StartsWith(line, << <<"fsutil.exe">>, <<"hardlink">>, <<"create">> >>)
IsHardlink(line) == IsModernLink(line) \/ IsLegacyLink(line)
IsMkdir(line) == StartsWith(line, << <<"mkdir">> >>)
IsDel(line) == StartsWith(line, << <<"del">>, <<"/Q">> >>)
IsRmdir(line) == StartsWith(line, << <<"rmdir">>, <<"/Q">> >>)
IsEchoOff(line) == line = << <<"@echo">>, <<"off">> >>
IsOpen(line) == line = << <<">">>, <<"NUL">>, <<"(">> >>
IsClose(line) == line = << <<")">> >>

\* a word that is an absolute path
IsPathWord(w) == Len(w) >= 2 /\ w[1] = "C:" /\ w[2] = "\\"

\* the path words of a line, left to right
PathWords(line) == SelectSeq(line, IsPathWord)

\* p lies below the directory root
IsBelow(p, root) == Len(p) > Len(root) + 1 /\ SubSeq(p, 1, Len(root)) = root
                    /\ p[Len(root) + 1] = "\\"

\* the absolute path of the relative path f under the directory root
Under(root, f) == normpath(root \o <<"\\">> \o f)

\* the directory that holds the absolute path p
ContainingDir(p) == IF Len(p) > 3 THEN SubSeq(p, 1, Len(p) - 2) ELSE SubSeq(p, 1, 2)

\* the absolute path a path of an unlink list stands for
Resolved(f) ==
    IF Len(f) >= 2 /\ f[1] = "C:" /\ IsSep(f[2]) THEN normpath(f) ELSE Under(cwd, f)

\* the indices of the lines of a text that are the line l
IndicesOf(text, l) == { i \in 1..Len(text) : text[i] = l }

Min(S) == CHOOSE x \in S : \A y \in S : x <= y
Max(S) == CHOOSE x \in S : \A y \in S : y <= x

HardlinkLines(text) == SelectSeq(text, IsHardlink)
MkdirLines(text) == SelectSeq(text, IsMkdir)
DelLines(text) == SelectSeq(text, IsDel)
RmdirLines(text) == SelectSeq(text, IsRmdir)

\* a link script: one leading @echo off, then two > NUL ( ... ) blocks, the
\* mkdir commands inside the first and the hardlink commands inside the second
TwoBlocks(text) ==
    LET opens == { i \in 1..Len(text) : IsOpen(text[i]) }
        closes == { i \in 1..Len(text) : IsClose(text[i]) }
    IN  /\ Len(text) >= 1
        /\ IsEchoOff(text[1])
        /\ \A i \in 2..Len(text) : ~IsEchoOff(text[i])
        /\ Cardinality(opens) = 2
        /\ Cardinality(closes) = 2
        /\ Min(opens) < Min(closes)
        /\ Min(closes) < Max(opens)
        /\ Max(opens) < Max(closes)
        /\ \A i \in 1..Len(text) :
              /\ IsMkdir(text[i]) => Min(opens) < i /\ i < Min(closes)
              /\ IsHardlink(text[i]) => Max(opens) < i /\ i < Max(closes)

Returned(op) == pc = "done" /\ call.op = op

\* the texts of make_bat_link in a state: the last one and the one before
LinkTexts == IF Returned("link")
             THEN {batchfile} \cup (IF prev.valid THEN {prev.batchfile} ELSE {})
             ELSE {}

----------------------------------------------------------------------------
(* C1: in every hardlink command of a text make_bat_link returned, under    *)
(* either template, there are exactly two path words, the destination      *)
(* (below the install prefix) first and the source (below the package      *)
(* directory) after it.                                                    *)
C1_DestBeforeSource ==
    \A text \in LinkTexts : \A i \in 1..Len(text) :
        IsHardlink(text[i]) =>
            LET pw == PathWords(text[i])
            IN  /\ Len(pw) = 2
                /\ IsBelow(pw[1], call.prefix)
                /\ IsBelow(pw[2], call.dist_dir)
                /\ pw = SubSeq(text[i], Len(text[i]) - 1, Len(text[i]))

\* both templates were rendered, for a list of two entries
C1_Witness ==
    /\ Returned("link")
    /\ prev.valid
    /\ prev.has_mklink # has_mklink
    /\ Len(call.files) = 2
    /\ Len(HardlinkLines(batchfile)) = 2
    /\ Len(HardlinkLines(prev.batchfile)) = 2

----------------------------------------------------------------------------
(* C2: the text make_bat_link returns holds exactly len(files) hardlink     *)
(* commands, all in the link block; the i-th is the command of the i-th    *)
(* entry, so a repeated entry yields a repeated command.                   *)
C2_OneLinkPerEntry ==
    Returned("link") =>
        LET hl == HardlinkLines(batchfile)
        IN  /\ Len(hl) = Len(call.files)
            /\ TwoBlocks(batchfile)
            /\ \A i \in 1..Len(hl) :
                  PathWords(hl[i]) = << Under(call.prefix, call.files[i]),
                                        Under(call.dist_dir, call.files[i]) >>

\* a list that names the same entry twice, rendered twice
C2_Witness ==
    /\ Returned("link")
    /\ Len(call.files) = 2
    /\ call.files[1] = call.files[2]
    /\ Len(HardlinkLines(batchfile)) = 2
    /\ HardlinkLines(batchfile)[1] = HardlinkLines(batchfile)[2]

(* C3: the setup block of the text make_bat_link returns holds exactly one  *)
(* mkdir command for each distinct absolute directory that holds an        *)
(* install_prefix + entry, and no mkdir command for any other directory.   *)
C3_OneMkdirPerDirectory ==
    Returned("link") =>
        LET mk == MkdirLines(batchfile)
            wanted == { ContainingDir(Under(call.prefix, call.files[i])) :
                            i \in 1..Len(call.files) }
        IN  /\ TwoBlocks(batchfile)
            /\ \A i \in 1..Len(mk) : Len(mk[i]) = 2
            /\ { mk[i][2] : i \in 1..Len(mk) } = wanted
            /\ Len(mk) = Cardinality(wanted)

\* two different entries of one directory, and a single mkdir
C3_Witness ==
    /\ Returned("link")
    /\ Len(call.files) = 2
    /\ call.files[1] # call.files[2]
    /\ split(call.files[1])[1] # split(call.files[2])[1]
    /\ Len(MkdirLines(batchfile)) = 1

(* C4: the hardlink command of an entry f links install_prefix + f (the     *)
(* destination) to source_root + f (the source); the directory holding the *)
(* destination has a mkdir command, and it is the install prefix itself    *)
(* when f has no directory part.                                           *)
C4_SameRelativePath ==
    Returned("link") =>
        LET hl == HardlinkLines(batchfile)
            mk == MkdirLines(batchfile)
            made == { mk[i][2] : i \in 1..Len(mk) }
        IN  /\ Len(hl) = Len(call.files)
            /\ \A i \in 1..Len(call.files) :
                  LET f == call.files[i]
                      n == Len(hl[i])
                  IN  /\ n >= 2
                      /\ hl[i][n - 1] = Under(call.prefix, f)
                      /\ hl[i][n] = Under(call.dist_dir, f)
                      /\ ContainingDir(hl[i][n - 1]) \in made
                      /\ (\A k \in 1..Len(f) : ~IsSep(f[k])) => call.prefix \in made

\* an entry without a directory part next to one with a directory part
C4_Witness ==
    /\ Returned("link")
    /\ Len(call.files) = 2
    /\ Len(call.files[1]) = 1
    /\ Len(call.files[2]) > 1
    /\ Len(MkdirLines(batchfile)) = 2
    /\ Len(HardlinkLines(batchfile)) = 2

(* C5: make_bat_link renders every hardlink command from the modern         *)
(* template when the probe found mklink and from the legacy template when  *)
(* it did not; with nothing found the call still returns the whole script. *)
C5_TemplateFollowsProbe ==
    Returned("link") =>
        /\ TwoBlocks(batchfile)
        /\ Len(HardlinkLines(batchfile)) = Len(call.files)
        /\ \A i \in 1..Len(batchfile) :
              IsHardlink(batchfile[i]) =>
                  IF has_mklink THEN IsModernLink(batchfile[i])
                  ELSE IsLegacyLink(batchfile[i])

\* the probe found nothing and two entries were rendered
C5_Witness ==
    /\ Returned("link")
    /\ ~has_mklink
    /\ Len(call.files) = 2
    /\ \A i \in 1..2 : IsLegacyLink(HardlinkLines(batchfile)[i])

(* C6: the text make_bat_unlink returns holds exactly len(files) del /Q     *)
(* commands, the i-th for the i-th file, and exactly len(directories)      *)
(* rmdir /Q commands, the i-th for the i-th directory; every del command   *)
(* stands before every rmdir command.                                      *)
C6_DeletesInInputOrder ==
    Returned("unlink") =>
        LET dl == DelLines(batchfile)
            rl == RmdirLines(batchfile)
        IN  /\ Len(dl) = Len(call.files)
            /\ \A i \in 1..Len(dl) :
                  dl[i] = << <<"del">>, <<"/Q">>, Resolved(call.files[i]) >>
            /\ Len(rl) = Len(call.directories)
            /\ \A i \in 1..Len(rl) :
                  rl[i] = << <<"rmdir">>, <<"/Q">>, Resolved(call.directories[i]) >>
            /\ \A i, j \in 1..Len(batchfile) :
                  IsDel(batchfile[i]) /\ IsRmdir(batchfile[j]) => i < j

\* two different files and two different directories were rendered
C6_Witness ==
    /\ Returned("unlink")
    /\ Len(call.files) = 2
    /\ call.files[1] # call.files[2]
    /\ Len(call.directories) = 2
    /\ call.directories[1] # call.directories[2]
    /\ Len(DelLines(batchfile)) = 2
    /\ Len(RmdirLines(batchfile)) = 2

(* C7: for files = [] make_bat_link returns the fixed text alone: @echo off *)
(* and the two > NUL ( ... ) blocks, with no mkdir and no hardlink command. *)
C7_EmptyListFixedText ==
    Returned("link") /\ call.files = <<>> =>
        /\ MkdirLines(batchfile) = <<>>
        /\ HardlinkLines(batchfile) = <<>>
        /\ batchfile = << << <<"@echo">>, <<"off">> >>,
                          << <<">">>, <<"NUL">>, <<"(">> >>,
                          <<>>,
                          << <<")">> >>,
                          <<>>,
                          << <<">">>, <<"NUL">>, <<"(">> >>,
                          <<>>,
                          << <<")">> >> >>

\* make_bat_link has returned for the empty list
C7_Witness ==
    /\ Returned("link")
    /\ call.files = <<>>
    /\ Len(batchfile) = 8

(* C9: in the text make_bat_link returns, after the single leading          *)
(* @echo off the setup block comes whole before the linking block, each in *)
(* its own > NUL ( ... ); so the mkdir command of the directory holding a  *)
(* hardlink command's destination stands before that command.              *)
C9_MkdirsBeforeLinks ==
    Returned("link") =>
        /\ TwoBlocks(batchfile)
        /\ \A i \in 1..Len(batchfile) :
              IsHardlink(batchfile[i]) =>
                  \E j \in 1..(i - 1) :
                      batchfile[j] = << <<"mkdir">>,
                                        ContainingDir(PathWords(batchfile[i])[1]) >>

\* two entries of two directories were rendered
C9_Witness ==
    /\ Returned("link")
    /\ Len(call.files) = 2
    /\ Len(MkdirLines(batchfile)) = 2
    /\ Len(HardlinkLines(batchfile)) = 2

----------------------------------------------------------------------------
\* the second of two calls with the same arguments has returned
ReturnedTwice(op) ==
    /\ Returned(op)
    /\ prev.valid
    /\ prev.prefix = call.prefix
    /\ prev.dist_dir = call.dist_dir

\* two texts with the same lines, but for the order of the mkdir commands
SameUpToMkdirOrder(a, b) ==
    /\ Len(a) = Len(b)
    /\ \A i \in 1..Len(a) :
          IF IsMkdir(a[i]) THEN IsMkdir(b[i]) ELSE a[i] = b[i]
    /\ { a[i] : i \in { k \in 1..Len(a) : IsMkdir(a[k]) } }
         = { b[i] : i \in { k \in 1..Len(b) : IsMkdir(b[k]) } }

(* C8, as claimed: two calls of make_bat_link, or of make_bat_unlink, with  *)
(* identical arguments and the same probe result return identical texts,   *)
(* the order of the mkdir commands included.  (Stated here for two calls   *)
(* in one working directory, the case most favourable to the claim.)       *)
C8_AsClaimed ==
    /\ ReturnedTwice("link") \/ ReturnedTwice("unlink")
    /\ prev.has_mklink = has_mklink
    /\ prev.cwd = cwd
    => prev.batchfile = batchfile

(* C8, amended: two calls with identical arguments, the same probe result   *)
(* and the same working directory return, for make_bat_unlink, identical   *)
(* texts, and for make_bat_link texts that are identical but for the order *)
(* of the mkdir commands, and identical in that order too when both calls  *)
(* run under the same string-hash seed.                                    *)
C8_SameUpToMkdirOrder ==
    /\ ReturnedTwice("unlink") /\ prev.has_mklink = has_mklink /\ prev.cwd = cwd
          => prev.batchfile = batchfile
    /\ ReturnedTwice("link") /\ prev.has_mklink = has_mklink /\ prev.cwd = cwd
          => /\ SameUpToMkdirOrder(prev.batchfile, batchfile)
             /\ prev.hashseed = hashseed => prev.batchfile = batchfile

\* make_bat_link returned the mkdir commands in another order the second time
C8_Witness ==
    /\ ReturnedTwice("link")
    /\ prev.has_mklink = has_mklink
    /\ prev.cwd = cwd
    /\ prev.hashseed # hashseed
    /\ Len(call.files) = 2
    /\ MkdirLines(prev.batchfile) # MkdirLines(batchfile)
    /\ HardlinkLines(prev.batchfile) = HardlinkLines(batchfile)

(* C10, as claimed: two calls of make_bat_unlink that agree on files and    *)
(* directories return identical texts, whatever prefix, dist_dir and probe *)
(* result each call has.                                                   *)
C10_AsClaimed ==
    Returned("unlink") /\ prev.valid => prev.batchfile = batchfile

(* C10, amended: two calls of make_bat_unlink that agree on files and       *)
(* directories and run in the same working directory return identical      *)
(* texts, whatever prefix, dist_dir and probe result each call has.        *)
C10_OnlyListsAndCwd ==
    Returned("unlink") /\ prev.valid /\ prev.cwd = cwd => prev.batchfile = batchfile

\* two calls in one working directory that differ in prefix, dist_dir and
\* probe result, for lists with a relative entry
C10_Witness ==
    /\ Returned("unlink")
    /\ prev.valid
    /\ prev.cwd = cwd
    /\ prev.prefix # call.prefix
    /\ prev.dist_dir # call.dist_dir
    /\ prev.has_mklink # has_mklink
    /\ Len(call.files) = 2
    /\ call.files[1] = <<"x.txt">>
    /\ Len(call.directories) = 1
    /\ Len(DelLines(batchfile)) = 2

====
